---- MODULE Spec2Model ----
(***************************************************************************)
(* EmailScout: URL extractor, history cache and the sequential extraction  *)
(* queue of the App component.                                             *)
(*                                                                         *)
(* Strings are sequences of one-character strings, so that splitting,      *)
(* trimming, pattern matching and normalisation are computed character by  *)
(* character as the JavaScript code computes them.                         *)
(***************************************************************************)
EXTENDS Integers, Sequences, FiniteSets, TLC

VARIABLES
    apiKey,        \* process.env.API_KEY is set (fixed for the session)
    websites,      \* App state: the active record list
    isProcessing,  \* App state: the running flag
    history,       \* App state: normalized url -> emails
    notification,  \* App state: the notice shown, or NoNotice
    nextId,        \* number of ids uuidv4 has handed out
    pc,            \* position of the processQueue coroutine
    pendingItems,  \* processQueue local: the snapshot of IDLE records
    idx,           \* processQueue local: index of the current snapshot item
    inFlight,      \* number of findEmailsForUrl calls issued and not returned
    pendingFiles,  \* file reads in progress, each with the closure it will call
    dismissTimers, \* armed setTimeout(() => setNotification(null), 5000)
    runLog,        \* observer: the finder outcomes of a run no user step disturbed
    procLog,       \* observer: ids put to PROCESSING by the run in progress
    runStart,      \* observer: ids and statuses of the list when that run started
    lastOp,        \* observer: the marked call that made the latest step, or "other"
    input,         \* extractor / statistics harness: the input drawn
    output,        \* extractor / statistics harness: the result computed
    watch          \* observer of a session of runs: the reply the latest call
                   \* got and the ids rolled back so far (kept only when on)

vars == <<apiKey, websites, isProcessing, history, notification, nextId, pc,
          pendingItems, idx, inFlight, pendingFiles, dismissTimers, runLog,
          procLog, runStart, lastOp, input, output, watch>>

appVars == <<apiKey, websites, isProcessing, history, notification, nextId, pc,
             pendingItems, idx, inFlight, pendingFiles, dismissTimers, runLog,
             procLog, runStart, lastOp>>

harnessVars == <<input, output, watch>>

(***************************************************************************)
(* Characters and strings                                                  *)
(***************************************************************************)
Digit == {"0", "1", "2", "3", "4", "5", "6", "7", "8", "9"}

LowerSeq == <<"a", "b", "c", "d", "e", "f", "g", "h", "i", "j", "k", "l", "m",
              "n", "o", "p", "q", "r", "s", "t", "u", "v", "w", "x", "y", "z">>

UpperSeq == <<"A", "B", "C", "D", "E", "F", "G", "H", "I", "J", "K", "L", "M",
              "N", "O", "P", "Q", "R", "S", "T", "U", "V", "W", "X", "Y", "Z">>

Lower == {LowerSeq[i] : i \in 1..26}

Upper == {UpperSeq[i] : i \in 1..26}

\* String.prototype.toLowerCase, one character
ToLowerChar(c) ==
    IF c \in Upper THEN LowerSeq[CHOOSE i \in 1..26 : UpperSeq[i] = c] ELSE c

\* String.prototype.toLowerCase
ToLowerCase(s) == [i \in 1..Len(s) |-> ToLowerChar(s[i])]

\* the characters String.prototype.trim removes
Whitespace == {" ", "\t", "\r", "\n"}

\* String.prototype.trim
Trim(s) ==
    LET keep == {i \in 1..Len(s) : s[i] \notin Whitespace}
    IN  IF keep = {} THEN <<>>
        ELSE SubSeq(s, CHOOSE i \in keep : \A j \in keep : i <= j,
                       CHOOSE i \in keep : \A j \in keep : j <= i)

\* String.prototype.includes
Includes(s, sub) ==
    \E i \in 1..(Len(s) - Len(sub) + 1) : SubSeq(s, i, i + Len(sub) - 1) = sub

Http == <<"h", "t", "t", "p", ":", "/", "/">>

Https == <<"h", "t", "t", "p", "s", ":", "/", "/">>

\* the first k characters of s (all of s when it is shorter)
Prefix(s, k) == SubSeq(s, 1, IF k <= Len(s) THEN k ELSE Len(s))

\* the urls returned as collected, not through a Set
Dedup_Keep(xs) == xs

\* Array.from(new Set(xs)): first occurrences, in insertion order
Dedup(xs) ==
    LET F[i \in 0..Len(xs)] ==
            IF i = 0 THEN <<>>
            ELSE IF \E j \in 1..(i - 1) : xs[j] = xs[i] THEN F[i - 1]
                 ELSE Append(F[i - 1], xs[i])
    IN  F[Len(xs)]

(***************************************************************************)
(* normalizeUrl (App)                                                      *)
(***************************************************************************)
\* url.replace(/^(https?:\/\/)?/, ''): the pattern has no i flag
StripScheme(url) ==
    IF Prefix(url, 8) = Https THEN SubSeq(url, 9, Len(url))
    ELSE IF Prefix(url, 7) = Http THEN SubSeq(url, 8, Len(url))
    ELSE url

\* .replace(/\/$/, ''): one trailing slash
StripSlash(s) ==
    IF Len(s) > 0 /\ s[Len(s)] = "/" THEN SubSeq(s, 1, Len(s) - 1) ELSE s

normalizeUrl(url) == ToLowerCase(StripSlash(StripScheme(url)))

(***************************************************************************)
(* URL extractor (fileUtils): parseText, parseFile                         *)
(***************************************************************************)
\* [a-z], with the i flag also [A-Z]
Letters(ci) == IF ci THEN Lower \cup Upper ELSE Lower

\* [\da-z\.-]
HostClass(ci) == Digit \cup Letters(ci) \cup {".", "-"}

\* [a-z\.]
TldClass(ci) == Letters(ci) \cup {"."}

\* [\/\w \.-]
PathClass == {"/", " ", ".", "-", "_"} \cup Digit \cup Lower \cup Upper

\* the lengths (https?:\/\/)? can match at the start of s
SchemeLens(s, ci) ==
    LET fold(p) == IF ci THEN ToLowerCase(p) ELSE p
    IN  {0} \cup {k \in {7, 8} : /\ Len(s) >= k
                                /\ fold(SubSeq(s, 1, k)) = (IF k = 7 THEN Http ELSE Https)}

\* urlRegex.test(s) for
\* /^(https?:\/\/)?([\da-z\.-]+)\.([a-z\.]{2,6})([\/\w \.-]*)*\/?$/
\* (ci: the i flag, which parseText sets and parseFile does not)
urlRegexTest(s, ci) ==
    \E p \in SchemeLens(s, ci) :
    \E h \in 1..Len(s) :
    \E t \in 2..6 :
        /\ p + h + 1 + t <= Len(s)
        /\ \A i \in (p + 1)..(p + h) : s[i] \in HostClass(ci)
        /\ s[p + h + 1] = "."
        /\ \A i \in (p + h + 2)..(p + h + 1 + t) : s[i] \in TldClass(ci)
        /\ \A i \in (p + h + t + 2)..Len(s) : s[i] \in PathClass

\* the characters of /[\n,;]+/
Separators == {"\n", ",", ";"}

\* text.split(/[\n,;]+/): the pieces between maximal runs of separators,
\* with an empty piece before a leading and after a trailing run
RECURSIVE SplitFrom(_, _, _)
SplitFrom(s, i, cur) ==
    IF i > Len(s) THEN <<cur>>
    ELSE IF s[i] \in Separators
         THEN LET rest == {j \in (i + 1)..Len(s) : s[j] \notin Separators}
                  next == IF rest = {} THEN Len(s) + 1
                          ELSE CHOOSE j \in rest : \A k \in rest : j <= k
              IN  <<cur>> \o SplitFrom(s, next, <<>>)
         ELSE SplitFrom(s, i + 1, Append(cur, s[i]))

Split(s) == SplitFrom(s, 1, <<>>)

parseText(text) ==
    LET lines   == Split(text)
        trimmed == [i \in 1..Len(lines) |-> Trim(lines[i])]
        valid(line) == Len(line) > 0 /\ urlRegexTest(line, TRUE)
    IN  Dedup(SelectSeq(trimmed, valid))

\* a spreadsheet cell: a string, or a value of another type
StringCell(s) == [type |-> "string", value |-> s]

NumberCell == [type |-> "number", value |-> <<>>]

\* row.forEach(cell => ...) over every row of the first sheet
RECURSIVE FlattenRows(_)
FlattenRows(rows) ==
    IF rows = <<>> THEN <<>> ELSE Head(rows) \o FlattenRows(Tail(rows))

\* parseFile: the promise resolves with the urls or rejects.
\* file.read: "ok" | "error" (reader.onerror); file.data: "sheet" | "empty" |
\* "corrupt" (XLSX.read throws); file.rows: sheet_to_json(header: 1)
parseFile(file) ==
    IF file.read = "error" \/ file.data = "corrupt" THEN [ok |-> FALSE, urls |-> <<>>]
    ELSE IF file.data = "empty" THEN [ok |-> TRUE, urls |-> <<>>]
    ELSE LET cells   == FlattenRows(file.rows)
             isStr(c) == c.type = "string"
             strs    == SelectSeq(cells, isStr)
             trimmed == [i \in 1..Len(strs) |-> Trim(strs[i].value)]
             valid(s) == urlRegexTest(s, FALSE)
         IN  [ok |-> TRUE, urls |-> Dedup(SelectSeq(trimmed, valid))]

(***************************************************************************)
(* Data model (types.ts)                                                   *)
(***************************************************************************)
ExtractionStatus == {"IDLE", "PENDING", "PROCESSING", "COMPLETED", "FAILED"}

\* WebsiteData.error is optional; a set error is never the empty string
NoError == <<>>

\* WebsiteData, as addUrls creates it
NewRecord(id, url) ==
    [id |-> id, url |-> url, status |-> "IDLE", emails |-> <<>>, error |-> NoError]

\* stats with the rate truncated instead of rounded
stats_Truncated(ws) ==
    LET isProcessed(w) == w.status = "COMPLETED" \/ w.status = "FAILED"
        hasEmails(w)   == Len(w.emails) > 0
        processed == Len(SelectSeq(ws, isProcessed))
        found     == Len(SelectSeq(ws, hasEmails))
    IN  [total       |-> Len(ws),
         processed   |-> processed,
         found       |-> found,
         successRate |-> IF processed > 0 THEN (100 * found) \div processed ELSE 0]

\* Stats, as the useMemo of App computes it;
\* Math.round((found / processed) * 100) rounds halves up
stats(ws) ==
    LET isProcessed(w) == w.status = "COMPLETED" \/ w.status = "FAILED"
        hasEmails(w)   == Len(w.emails) > 0
        processed == Len(SelectSeq(ws, isProcessed))
        found     == Len(SelectSeq(ws, hasEmails))
    IN  [total       |-> Len(ws),
         processed   |-> processed,
         found       |-> found,
         successRate |-> IF processed > 0
                         THEN (200 * found + processed) \div (2 * processed)
                         ELSE 0]

(***************************************************************************)
(* Email finder (geminiService): findEmailsForUrl                          *)
(***************************************************************************)
\* an error object thrown by the call: status / code 0 and message <<>>
\* stand for an absent field (all are falsy and match no substring)
Err(status, code, message) == [status |-> status, code |-> code, message |-> message]

NoErr == Err(0, 0, <<>>)

\* new Error("API Key not found in environment variables")
MsgNoKey == <<"A", "P", "I", " ", "K", "e", "y", " ", "n", "o", "t", " ",
              "f", "o", "u", "n", "d", " ", "i", "n", " ",
              "e", "n", "v", "i", "r", "o", "n", "m", "e", "n", "t", " ",
              "v", "a", "r", "i", "a", "b", "l", "e", "s">>

ErrNoKey == Err(0, 0, MsgNoKey)

\* the result of one call: resolved with emails, or rejected with an error
Resolved(emails) == [ok |-> TRUE, emails |-> emails, error |-> NoErr]

Rejected(e) == [ok |-> FALSE, emails |-> <<>>, error |-> e]

\* emailRegex.test(e) for /[a-zA-Z0-9._%+-]+@[a-zA-Z0-9.-]+\.[a-zA-Z]{2,}/
\* (unanchored: some substring has the shape)
emailRegexTest(e) ==
    LET local  == Lower \cup Upper \cup Digit \cup {".", "_", "%", "+", "-"}
        domain == Lower \cup Upper \cup Digit \cup {".", "-"}
        alpha  == Lower \cup Upper
    IN  \E at \in 2..Len(e) : \E dot \in (at + 2)..(Len(e) - 2) :
            /\ e[at - 1] \in local
            /\ e[at] = "@"
            /\ \A i \in (at + 1)..(dot - 1) : e[i] \in domain
            /\ e[dot] = "."
            /\ e[dot + 1] \in alpha /\ e[dot + 2] \in alpha

\* findEmailsForUrl without the inner try / catch: a SyntaxError of
\* JSON.parse reaches the outer catch and is rethrown
findEmailsForUrl_ParseThrows(hasKey, reply) ==
    IF ~hasKey THEN Rejected(ErrNoKey)
    ELSE IF reply.kind = "throw" THEN Rejected(reply.error)
    ELSE IF reply.kind = "emails"
         THEN Resolved(SelectSeq(reply.emails, emailRegexTest))
    ELSE IF reply.kind = "invalid"
         THEN Rejected(Err(0, 0, <<"b", "a", "d", " ", "J", "S", "O", "N">>))
    ELSE Resolved(<<>>)

\* what the call does once the endpoint has answered.
\* reply.kind: "throw" (transport / auth failure, reply.error), or the shape
\* JSON.parse finds in the cleaned text: "invalid" (SyntaxError, also for an
\* empty text), "null", "noEmails" (no array field emails), "emails"
findEmailsForUrl(hasKey, reply) ==
    IF ~hasKey THEN Rejected(ErrNoKey)
    ELSE IF reply.kind = "throw" THEN Rejected(reply.error)
    ELSE IF reply.kind = "emails"
         THEN Resolved(SelectSeq(reply.emails, emailRegexTest))
    ELSE Resolved(<<>>)

(***************************************************************************)
(* App: addUrls, saveAndClear and the rate-limit test of processQueue      *)
(***************************************************************************)
\* the notice shown, by the sentence it is built from (the counts and the
\* plural endings its text carries are left out); "none": null
NoNotice == "none"

\* the loop of addUrls over the batch: the new entries and the two skip
\* counters.  closureSeen: currentNormalized as built from the `websites` of
\* the closure this addUrls belongs to; closureKeys: the keys of its
\* `history`; ids: what the calls of uuidv4 return
AddLoop(closureSeen, closureKeys, urls, ids) ==
    LET start == [seen    |-> closureSeen,
                  entries |-> <<>>, skippedHistory |-> 0, skippedDuplicate |-> 0]
        F[i \in 0..Len(urls)] ==
            IF i = 0 THEN start
            ELSE LET acc == F[i - 1]
                     normalized == normalizeUrl(urls[i])
                 IN  IF normalized \in acc.seen
                     THEN [acc EXCEPT !.skippedDuplicate = @ + 1]
                     ELSE IF normalized \in closureKeys
                     THEN [acc EXCEPT !.skippedHistory = @ + 1]
                     ELSE [acc EXCEPT
                             !.entries = Append(@, NewRecord(ids[Len(@) + 1], urls[i])),
                             !.seen = @ \cup {normalized}]
    IN  F[Len(urls)]

\* the notice addUrls leaves: it clears the notice first, then reports skips
AddNotice(r) ==
    IF r.skippedHistory > 0 THEN "historySkipped"
    ELSE IF r.skippedDuplicate > 0 THEN "duplicatesIgnored"
    ELSE NoNotice

\* saveAndClear that saves COMPLETED records only
SaveLoop_CompletedOnly(hist, ws) ==
    LET F[i \in 0..Len(ws)] ==
            IF i = 0 THEN [h |-> hist, savedCount |-> 0]
            ELSE LET acc == F[i - 1]
                     w   == ws[i]
                     key == normalizeUrl(w.url)
                 IN  IF w.status = "COMPLETED"
                     THEN [h |-> [k \in (DOMAIN acc.h) \cup {key} |->
                                     IF k = key THEN w.emails ELSE acc.h[k]],
                           savedCount |-> acc.savedCount + 1]
                     ELSE acc
    IN  F[Len(ws)]

\* websites.forEach of saveAndClear: newHistory[key] = w.emails, in list order
SaveLoop(hist, ws) ==
    LET F[i \in 0..Len(ws)] ==
            IF i = 0 THEN [h |-> hist, savedCount |-> 0]
            ELSE LET acc == F[i - 1]
                     w   == ws[i]
                     key == normalizeUrl(w.url)
                 IN  IF w.status = "COMPLETED" \/ w.status = "FAILED"
                     THEN [h |-> [k \in (DOMAIN acc.h) \cup {key} |->
                                     IF k = key THEN w.emails ELSE acc.h[k]],
                           savedCount |-> acc.savedCount + 1]
                     ELSE acc
    IN  F[Len(ws)]

Msg429 == <<"4", "2", "9">>

MsgQuota == <<"q", "u", "o", "t", "a">>

MsgResourceExhausted == <<"R", "E", "S", "O", "U", "R", "C", "E", "_",
                          "E", "X", "H", "A", "U", "S", "T", "E", "D">>

\* isRateLimit without the test of error.code
isRateLimit_NoCode(error) ==
    \/ error.status = 429
    \/ Includes(error.message, Msg429)
    \/ Includes(error.message, MsgQuota)
    \/ Includes(error.message, MsgResourceExhausted)

\* isRateLimit of processQueue
isRateLimit(error) ==
    \/ error.status = 429
    \/ error.code = 429
    \/ Includes(error.message, Msg429)
    \/ Includes(error.message, MsgQuota)
    \/ Includes(error.message, MsgResourceExhausted)

\* "Failed to scout"
MsgFallback == <<"F", "a", "i", "l", "e", "d", " ", "t", "o", " ",
                 "s", "c", "o", "u", "t">>

\* error.message, with the fallback forgotten
ErrorText_NoFallback(error) == error.message

\* error.message || "Failed to scout"
ErrorText(error) == IF error.message # <<>> THEN error.message ELSE MsgFallback

\* the update applied to every record, the test of the id forgotten
MapById_All(ws, id, fields) ==
    [i \in 1..Len(ws) |->
        [k \in DOMAIN ws[i] |-> IF k \in DOMAIN fields THEN fields[k] ELSE ws[i][k]]]

\* prev.map(w => w.id === id ? { ...w, ...fields } : w)
MapById(ws, id, fields) ==
    [i \in 1..Len(ws) |->
        IF ws[i].id = id
        THEN [k \in DOMAIN ws[i] |-> IF k \in DOMAIN fields THEN fields[k] ELSE ws[i][k]]
        ELSE ws[i]]

\* the snapshot taken in reverse list order
IdleItems_Reversed(ws) ==
    LET isIdle(w) == w.status = "IDLE"
        idle == SelectSeq(ws, isIdle)
    IN  [i \in 1..Len(idle) |-> idle[Len(idle) + 1 - i]]

\* the snapshot with its first record left out
IdleItems_SkipFirst(ws) ==
    LET isIdle(w) == w.status = "IDLE"
        idle == SelectSeq(ws, isIdle)
    IN  IF idle = <<>> THEN idle ELSE Tail(idle)

\* websites.filter(w => w.status === IDLE)
IdleItems(ws) ==
    LET isIdle(w) == w.status = "IDLE" IN SelectSeq(ws, isIdle)

\* processQueue without its guard
RunGuard_Off(flag) == FALSE

\* if (isProcessing) return
RunGuard(flag) == flag

\* { ...w, status: PROCESSING }
SetProcessing == [status |-> "PROCESSING"]

\* { ...w, status: COMPLETED, emails: emails }
CompletedFields(emails) == [status |-> "COMPLETED", emails |-> emails]

\* the rate-limited record marked FAILED like any other failure
RevertFields_Failed == [status |-> "FAILED"]

\* the rollback to the other status that shows as "Pending"
RevertFields_Pending == [status |-> "PENDING"]

\* { ...w, status: IDLE }
RevertFields == [status |-> "IDLE"]

\* { ...w, status: FAILED, error: error.message || "Failed to scout" }
FailedFields(error) == [status |-> "FAILED", error |-> ErrorText(error)]

(***************************************************************************)
(* Bounds and the inputs drawn                                             *)
(***************************************************************************)
\* ids handed out in one session
MaxIds == 2

\* file reads in progress at once
MaxPendingFiles == 1

\* auto-dismiss timers armed at once
MaxTimers == 1

\* records in the list an undisturbed run starts from
MaxRunRecords == 3

\* records in the list the statistics are read from
MaxStatsRecords == 4

\* lines of a text, cells of a sheet handed to the extractor
MaxPieces == 2

UrlA == <<"a", ".", "c", "o">>

UrlA2 == <<"A", ".", "c", "o", "/">>

UrlB == <<"b", ".", "i", "o">>

UrlC == <<"c", ".", "s", "e">>

UrlD == <<"d", ".", "d", "e">>

UrlE == <<"e", ".", "e", "u">>

\* "a.co, A.co/;b.io"
TextAB == UrlA \o <<",", " ">> \o UrlA2 \o <<";">> \o UrlB

\* "n/a"
TextBad == <<"n", "/", "a">>

\* what the user submits from the text area
Texts == {UrlA2, TextAB, TextBad}

Sheet(rows) == [read |-> "ok", data |-> "sheet", rows |-> rows]

FileA == Sheet(<< <<StringCell(UrlA), NumberCell>>, <<StringCell(TextBad)>> >>)

FileCorrupt == [read |-> "ok", data |-> "corrupt", rows |-> <<>>]

\* what the user uploads or drops
Files == {FileA, FileCorrupt}

TextBatch == [t \in Texts |-> parseText(t)]

FileResult == [f \in Files |-> parseFile(f)]

EmailInfo == <<"i", "@", "a", ".", "c", "o">>

Throw(e) == [kind |-> "throw", error |-> e, emails |-> <<>>]

Answer(kind, emails) == [kind |-> kind, error |-> NoErr, emails |-> emails]

ErrStatus429 == Err(429, 0, <<"b", "u", "s", "y">>)

ErrCode429 == Err(0, 429, <<>>)

ErrMessage429 == Err(0, 0, <<"H", "T", "T", "P", " ", "4", "2", "9">>)

ErrQuota == Err(0, 0, <<"n", "o", " ">> \o MsgQuota)

ErrResourceExhausted == Err(0, 0, MsgResourceExhausted)

ErrPlain == Err(500, 0, <<"b", "o", "o", "m">>)

ErrNoMessage == Err(0, 0, <<>>)

\* how the endpoint may answer one call
Replies ==
    {Throw(ErrStatus429), Throw(ErrCode429), Throw(ErrMessage429), Throw(ErrQuota),
     Throw(ErrResourceExhausted), Throw(ErrPlain), Throw(ErrNoMessage),
     Answer("emails", <<EmailInfo, TextBad>>), Answer("emails", <<>>),
     Answer("invalid", <<>>), Answer("noEmails", <<>>)}

(***************************************************************************)
(* The App and its input section as a state machine.                       *)
(*                                                                         *)
(* One step is one task of the event loop: a handler called by the user,   *)
(* or the part of processQueue between two awaits.  A handler that checks  *)
(* a condition itself (processQueue, clearList and saveAndClear on an      *)
(* empty list) may be called whether or not its button is enabled; where   *)
(* only the disabled attribute of the control stands in the way (the       *)
(* running flag for "Add from Text", the file input, "Discard" and         *)
(* "Save & Clear") the attribute is the guard of the step.                 *)
(***************************************************************************)
NoHistory == [k \in {} |-> <<>>]

\* no reply received yet
NoReply == [kind |-> "none", error |-> NoErr, emails |-> <<>>]

WatchOff == [on |-> FALSE, reply |-> NoReply, rolledBack |-> {}]

\* new Set(websites.map(w => normalizeUrl(w.url)))
currentNormalized(ws) == {normalizeUrl(ws[i].url) : i \in 1..Len(ws)}

Init ==
    /\ apiKey \in BOOLEAN
    /\ websites = <<>>
    /\ isProcessing = FALSE
    /\ history = NoHistory
    /\ notification = NoNotice
    /\ nextId = 0
    /\ pc = "idle"
    /\ pendingItems = <<>>
    /\ idx = 0
    /\ inFlight = 0
    /\ pendingFiles = <<>>
    /\ dismissTimers = 0
    /\ runLog = <<>>
    /\ procLog = <<>>
    /\ runStart = <<>>
    /\ lastOp = "other"
    /\ input = <<>>
    /\ output = [done |-> FALSE, value |-> <<>>]
    /\ watch = WatchOff

queueVars == <<pc, pendingItems, idx, inFlight, procLog>>

\* the calls lastOp tells apart
Marked == {"processQueue", "saveAndClear"}

Label(op) == IF op \in Marked THEN op ELSE "other"

\* a step of the user (or of a file read the user started): the run, if
\* any, is no longer an undisturbed one, and its record is dropped
UserStep(op) ==
    /\ lastOp' = Label(op)
    /\ runLog' = <<>>
    /\ runStart' = <<>>

\* addUrls called through a closure that sees closureSeen and closureKeys;
\* setWebsites(prev => [...prev, ...newEntries]) appends to the current list
addUrls(closureSeen, closureKeys, urls) ==
    LET r == AddLoop(closureSeen, closureKeys, urls, [i \in 1..Len(urls) |-> nextId + i])
    IN  /\ nextId + Len(r.entries) <= MaxIds
        /\ notification' = AddNotice(r)
        /\ websites' = websites \o r.entries
        /\ nextId' = nextId + Len(r.entries)

\* processUrls of InputSection: addUrls, or the alert "No valid URLs found."
processUrls(closureSeen, closureKeys, urls) ==
    IF Len(urls) > 0
    THEN addUrls(closureSeen, closureKeys, urls) /\ UserStep("addUrls")
    ELSE UNCHANGED <<websites, notification, nextId>> /\ UserStep("alert")

\* "Add from Text" (disabled while processing or when the text is blank)
handleManualSubmit ==
    \E text \in Texts :
        /\ ~isProcessing
        /\ Trim(text) # <<>>
        /\ processUrls(currentNormalized(websites), DOMAIN history, TextBatch[text])
        /\ UNCHANGED <<apiKey, isProcessing, history, pendingFiles, dismissTimers>>
        /\ UNCHANGED queueVars
        /\ UNCHANGED harnessVars

\* the normalized urls a read of this file can ask its closure about
Asked(file) ==
    LET urls == FileResult[file].urls IN {normalizeUrl(urls[i]) : i \in 1..Len(urls)}

\* the file read started by a handler of the render that saw the current
\* websites and history; it calls that render's addUrls when it completes.
\* Of that closure the read keeps what its addUrls can look up: the entries
\* of currentNormalized and of history for the urls of the file
StartRead(file, op) ==
    /\ Len(pendingFiles) < MaxPendingFiles
    /\ pendingFiles' = Append(pendingFiles,
                              [file |-> file,
                               seen |-> currentNormalized(websites) \cap Asked(file),
                               keys |-> (DOMAIN history) \cap Asked(file)])
    /\ UserStep(op)
    /\ UNCHANGED <<apiKey, nextId, websites, isProcessing, history, notification,
                   dismissTimers>>
    /\ UNCHANGED queueVars
    /\ UNCHANGED harnessVars

\* the file input (disabled while processing)
handleFileChange == \E file \in Files : ~isProcessing /\ StartRead(file, "fileChange")

\* the drop zone (not disabled while processing)
handleDrop == \E file \in Files : StartRead(file, "drop")

\* a file read completes: parseFile settles and the handler continues
FileLoaded ==
    \E i \in 1..Len(pendingFiles) :
        LET read   == pendingFiles[i]
            result == FileResult[read.file]
        IN  /\ pendingFiles' = SubSeq(pendingFiles, 1, i - 1)
                                 \o SubSeq(pendingFiles, i + 1, Len(pendingFiles))
            /\ IF result.ok
               THEN processUrls(read.seen, read.keys, result.urls)
               ELSE UNCHANGED <<websites, notification, nextId>> /\ UserStep("alert")
            /\ UNCHANGED <<apiKey, isProcessing, history, dismissTimers>>
            /\ UNCHANGED queueVars
            /\ UNCHANGED harnessVars

\* the remove button of a row of ResultsTable
removeWebsite ==
    \E i \in 1..Len(websites) :
        LET id == websites[i].id
            keep(w) == w.id # id
        IN  /\ websites' = SelectSeq(websites, keep)
            /\ UserStep("removeWebsite")
            /\ UNCHANGED <<apiKey, nextId, isProcessing, history, notification,
                           pendingFiles, dismissTimers>>
            /\ UNCHANGED queueVars
            /\ UNCHANGED harnessVars

\* "Discard" (disabled while processing); confirmed: the answer to window.confirm
clearList ==
    \E confirmed \in BOOLEAN :
        /\ ~isProcessing
        /\ IF Len(websites) = 0 THEN
              UNCHANGED <<websites, notification>> /\ UserStep("clearListEmpty")
           ELSE IF confirmed THEN
              websites' = <<>> /\ notification' = NoNotice /\ UserStep("clearList")
           ELSE
              UNCHANGED <<websites, notification>> /\ UserStep("clearListCancelled")
        /\ UNCHANGED <<apiKey, nextId, isProcessing, history, pendingFiles, dismissTimers>>
        /\ UNCHANGED queueVars
        /\ UNCHANGED harnessVars

\* "Save & Clear" (disabled while processing)
saveAndClear ==
    /\ ~isProcessing
    /\ IF Len(websites) = 0 THEN
          /\ UNCHANGED <<websites, history, notification, dismissTimers>>
          /\ UserStep("saveAndClear")
       ELSE
          LET r == SaveLoop(history, websites)
          IN  /\ dismissTimers < MaxTimers
              /\ history' = r.h
              /\ websites' = <<>>
              /\ notification' = "saved"
              /\ dismissTimers' = dismissTimers + 1
              /\ UserStep("saveAndClear")
    /\ UNCHANGED <<apiKey, nextId, isProcessing, pendingFiles>>
    /\ UNCHANGED queueVars
    /\ UNCHANGED harnessVars

\* the dismiss button of the notice
DismissNotice ==
    /\ notification # NoNotice
    /\ notification' = NoNotice
    /\ UserStep("dismiss")
    /\ UNCHANGED <<apiKey, nextId, websites, isProcessing, history, pendingFiles,
                   dismissTimers>>
    /\ UNCHANGED queueVars
    /\ UNCHANGED harnessVars

\* setTimeout(() => setNotification(null), 5000) of saveAndClear fires
DismissTimer ==
    /\ dismissTimers > 0
    /\ dismissTimers' = dismissTimers - 1
    /\ notification' = NoNotice
    /\ lastOp' = Label("timer")
    /\ UNCHANGED <<apiKey, nextId, websites, isProcessing, history, pendingFiles,
                   runLog, runStart>>
    /\ UNCHANGED queueVars
    /\ UNCHANGED harnessVars

\* the head of the for loop for snapshot item k: the record goes to
\* PROCESSING and findEmailsForUrl is called
BeginItem(items, k, log) ==
    /\ websites' = MapById(websites, items[k].id, SetProcessing)
    /\ procLog' = IF items[k].id \in {websites[i].id : i \in 1..Len(websites)}
                  THEN Append(log, items[k].id) ELSE log
    /\ idx' = k
    /\ inFlight' = inFlight + 1
    /\ pc' = "calling"

\* the run returns: its locals are gone
EndRun ==
    /\ pc' = "idle"
    /\ pendingItems' = <<>>
    /\ idx' = 0
    /\ procLog' = <<>>

\* processQueue, up to its first await
processQueue ==
    IF RunGuard(isProcessing) THEN
        /\ UserStep("processQueue")
        /\ UNCHANGED <<apiKey, nextId, websites, isProcessing, history, notification,
                       pendingFiles, dismissTimers>>
        /\ UNCHANGED queueVars
        /\ UNCHANGED harnessVars
    ELSE
        LET items == IdleItems(websites)
        IN  /\ notification' = NoNotice
            /\ runLog' = <<>>
            /\ runStart' = [i \in 1..Len(websites) |->
                              [id |-> websites[i].id, status |-> websites[i].status]]
            /\ lastOp' = Label("processQueue")
            /\ IF Len(items) = 0
               THEN /\ isProcessing' = FALSE
                    /\ EndRun
                    /\ UNCHANGED <<websites, inFlight>>
               ELSE /\ isProcessing' = TRUE
                    /\ pendingItems' = items
                    /\ BeginItem(items, 1, <<>>)
            /\ UNCHANGED <<apiKey, nextId, history, pendingFiles, dismissTimers>>
            /\ UNCHANGED harnessVars

\* the try / catch with the delay inside the try: after a failure the loop
\* goes straight to the next record, or returns
FinderReturn_DelayInTry ==
    \E reply \in Replies :
        LET item    == pendingItems[idx]
            outcome == findEmailsForUrl(apiKey, reply)
            halts   == ~outcome.ok /\ isRateLimit(outcome.error)
            failed  == MapById(websites, item.id, FailedFields(outcome.error))
        IN  /\ pc = "calling"
            /\ runLog' = IF runStart # <<>>
                         THEN Append(runLog, [id |-> item.id, outcome |-> outcome])
                         ELSE runLog
            /\ lastOp' = Label("finderReturn")
            /\ IF outcome.ok THEN
                  /\ websites' = MapById(websites, item.id, CompletedFields(outcome.emails))
                  /\ pc' = "delay"
                  /\ inFlight' = inFlight - 1
                  /\ UNCHANGED <<isProcessing, notification, pendingItems, idx, procLog>>
               ELSE IF halts THEN
                  /\ notification' = "rateLimit"
                  /\ isProcessing' = FALSE
                  /\ websites' = MapById(websites, item.id, RevertFields)
                  /\ inFlight' = inFlight - 1
                  /\ EndRun
               ELSE IF idx < Len(pendingItems) THEN
                  /\ websites' = MapById(failed, pendingItems[idx + 1].id, SetProcessing)
                  /\ idx' = idx + 1
                  /\ procLog' = Append(procLog, pendingItems[idx + 1].id)
                  /\ UNCHANGED <<isProcessing, notification, pendingItems, inFlight, pc>>
               ELSE
                  /\ websites' = failed
                  /\ isProcessing' = FALSE
                  /\ inFlight' = inFlight - 1
                  /\ EndRun
                  /\ UNCHANGED notification
            /\ watch' = IF watch.on
                         THEN [watch EXCEPT !.reply = reply,
                                            !.rolledBack = IF halts THEN @ \cup {item.id} ELSE @]
                         ELSE watch
            /\ UNCHANGED <<apiKey, nextId, history, pendingFiles, dismissTimers, runStart>>
            /\ UNCHANGED <<input, output>>

\* the awaited findEmailsForUrl settles: the body of try / catch
FinderReturn ==
    \E reply \in Replies :
        LET item    == pendingItems[idx]
            outcome == findEmailsForUrl(apiKey, reply)
            complete == CompletedFields(outcome.emails)
            revert   == RevertFields
            fail     == FailedFields(outcome.error)
            halts    == ~outcome.ok /\ isRateLimit(outcome.error)
        IN  /\ pc = "calling"
            /\ inFlight' = inFlight - 1
            /\ runLog' = IF runStart # <<>>
                         THEN Append(runLog, [id |-> item.id, outcome |-> outcome])
                         ELSE runLog
            /\ lastOp' = Label("finderReturn")
            /\ IF outcome.ok THEN
                  /\ websites' = MapById(websites, item.id, complete)
                  /\ pc' = "delay"
                  /\ UNCHANGED <<isProcessing, notification, pendingItems, idx, procLog>>
               ELSE IF isRateLimit(outcome.error) THEN
                  /\ notification' = "rateLimit"
                  /\ isProcessing' = FALSE
                  /\ websites' = MapById(websites, item.id, revert)
                  /\ EndRun
               ELSE
                  /\ websites' = MapById(websites, item.id, fail)
                  /\ pc' = "delay"
                  /\ UNCHANGED <<isProcessing, notification, pendingItems, idx, procLog>>
            /\ watch' = IF watch.on
                         THEN [watch EXCEPT !.reply = reply,
                                            !.rolledBack = IF halts THEN @ \cup {item.id} ELSE @]
                         ELSE watch
            /\ UNCHANGED <<apiKey, nextId, history, pendingFiles, dismissTimers, runStart>>
            /\ UNCHANGED <<input, output>>

\* the awaited 4000 ms timer fires: the next item, or the end of the run
DelayElapsed ==
    /\ pc = "delay"
    /\ lastOp' = Label("delayElapsed")
    /\ IF idx < Len(pendingItems)
       THEN /\ BeginItem(pendingItems, idx + 1, procLog)
            /\ UNCHANGED <<isProcessing, pendingItems>>
       ELSE /\ isProcessing' = FALSE
            /\ EndRun
            /\ UNCHANGED <<websites, inFlight>>
    /\ UNCHANGED <<apiKey, nextId, history, notification, pendingFiles, dismissTimers,
                   runLog, runStart>>
    /\ UNCHANGED harnessVars

Next ==
    \/ handleManualSubmit
    \/ handleFileChange
    \/ handleDrop
    \/ FileLoaded
    \/ removeWebsite
    \/ clearList
    \/ saveAndClear
    \/ DismissNotice
    \/ DismissTimer
    \/ processQueue
    \/ FinderReturn
    \/ DelayElapsed

Spec == Init /\ [][Next]_vars

(***************************************************************************)
(* An undisturbed run: processQueue from a list the App can hold, with no  *)
(* other handler called.  Records are appended and processed in list       *)
(* order, so the list is processed records followed by IDLE ones.          *)
(***************************************************************************)
RunUrls == <<UrlA, UrlB, UrlC, UrlD, UrlE>>

\* what a processed record holds
ProcessedFields ==
    {[status |-> "COMPLETED", emails |-> <<>>, error |-> NoError],
     [status |-> "COMPLETED", emails |-> <<EmailInfo>>, error |-> NoError],
     [status |-> "FAILED", emails |-> <<>>, error |-> ErrPlain.message],
     [status |-> "FAILED", emails |-> <<>>, error |-> MsgFallback]}

RunLists ==
    UNION {UNION {{[i \in 1..n |->
                      IF i <= k
                      THEN [id |-> i, url |-> RunUrls[i], status |-> f[i].status,
                            emails |-> f[i].emails, error |-> f[i].error]
                      ELSE NewRecord(i, RunUrls[i])] : f \in [1..k -> ProcessedFields]}
                  : k \in 0..n}
           : n \in 0..(IF MaxRunRecords <= Len(RunUrls) THEN MaxRunRecords ELSE Len(RunUrls))}

InitRun ==
    /\ apiKey \in BOOLEAN
    /\ websites \in RunLists
    /\ isProcessing = FALSE
    /\ history = NoHistory
    /\ notification = NoNotice
    /\ nextId = Len(websites)
    /\ pc = "idle"
    /\ pendingItems = <<>>
    /\ idx = 0
    /\ inFlight = 0
    /\ pendingFiles = <<>>
    /\ dismissTimers = 0
    /\ runLog = <<>>
    /\ procLog = <<>>
    /\ runStart = <<>>
    /\ lastOp = "other"
    /\ input = <<>>
    /\ output = [done |-> FALSE, value |-> <<>>]
    /\ watch = [on |-> TRUE, reply |-> NoReply, rolledBack |-> {}]

NextRun ==
    \/ processQueue
    \/ FinderReturn
    \/ DelayElapsed

SpecRun == InitRun /\ [][NextRun]_vars

(***************************************************************************)
(* Claims about a run                                                      *)
(***************************************************************************)
\* the ids of the records that were IDLE when the run started, in list order
SnapshotIds ==
    LET wasIdle(r) == r.status = "IDLE"
        idle == SelectSeq(runStart, wasIdle)
    IN  [i \in 1..Len(idle) |-> idle[i].id]

\* the record with this id
RecordOf(id) == websites[CHOOSE i \in 1..Len(websites) : websites[i].id = id]

\* an undisturbed run has started and has returned
RunReturned == pc = "idle" /\ runStart # <<>>

\* the rate-limit errors the claims name
RateLimitCases ==
    {ErrStatus429, ErrCode429, ErrMessage429, ErrQuota, ErrResourceExhausted}

\* the k-th record of the snapshot ended as its own finder outcome says
EndedAsOutcome(k) ==
    LET r == RecordOf(SnapshotIds[k])
        o == runLog[k].outcome
    IN  /\ runLog[k].id = SnapshotIds[k]
        /\ IF o.ok THEN r.status = "COMPLETED" /\ r.emails = o.emails
                   ELSE r.status = "FAILED"

\* C1: when an undisturbed run over N IDLE records has returned and the
\* finder rejected the K-th call with a rate-limit error, records 1..K-1 are
\* COMPLETED or FAILED as their outcomes say, record K is IDLE again, records
\* K+1..N are IDLE and were never handed to the finder, and the controller is
\* not running.
C1_RateLimitHalt ==
    (/\ RunReturned
     /\ runLog # <<>>
     /\ ~runLog[Len(runLog)].outcome.ok
     /\ runLog[Len(runLog)].outcome.error \in RateLimitCases)
    => LET K == Len(runLog)
           N == Len(SnapshotIds)
       IN  /\ K <= N
           /\ \A k \in 1..(K - 1) : EndedAsOutcome(k)
           /\ runLog[K].id = SnapshotIds[K]
           /\ RecordOf(SnapshotIds[K]).status = "IDLE"
           /\ \A k \in (K + 1)..N :
                  /\ RecordOf(SnapshotIds[k]).status = "IDLE"
                  /\ \A j \in 1..K : runLog[j].id # SnapshotIds[k]
           /\ ~isProcessing
           /\ inFlight = 0

\* a run over three IDLE records halted by a rate-limit error on the second,
\* after the first call failed or succeeded
C1_Witness ==
    /\ RunReturned
    /\ Len(SnapshotIds) = 3
    /\ Len(runLog) = 2
    /\ runLog[2].outcome.error = ErrCode429
    /\ RecordOf(SnapshotIds[1]).status = "FAILED"

\* C2: when an undisturbed run over N IDLE records has returned and every
\* finder call of it succeeded, all N records are COMPLETED, each with the
\* emails its call returned, and the controller is not running.
C2_AllCompleted ==
    (/\ RunReturned
     /\ \A k \in 1..Len(runLog) : runLog[k].outcome.ok)
    => /\ Len(runLog) = Len(SnapshotIds)
       /\ \A k \in 1..Len(SnapshotIds) :
              /\ runLog[k].id = SnapshotIds[k]
              /\ RecordOf(SnapshotIds[k]).status = "COMPLETED"
              /\ RecordOf(SnapshotIds[k]).emails = runLog[k].outcome.emails
       /\ ~isProcessing

\* a run over three IDLE records, all calls succeeded, with and without emails
C2_Witness ==
    /\ RunReturned
    /\ Len(SnapshotIds) = 3
    /\ Len(runLog) = 3
    /\ \A k \in 1..3 : runLog[k].outcome.ok
    /\ runLog[1].outcome.emails = <<EmailInfo>>
    /\ runLog[2].outcome.emails = <<>>

\* the errors that are no rate-limit errors
OtherErrors == {ErrPlain, ErrNoMessage, ErrNoKey}

\* C5: when the finder rejects the call for a record with an error that is
\* no rate-limit error, the record is FAILED, its error is the message of
\* the error (the fallback text when there is none), its emails stay empty,
\* and the run goes on: it waits, then takes the next snapshot record, and
\* returns only after the last one.
C5_FailureContinues ==
    \A k \in 1..Len(runLog) :
        (~runLog[k].outcome.ok /\ runLog[k].outcome.error \in OtherErrors)
        => LET r == RecordOf(SnapshotIds[k])
               e == runLog[k].outcome.error
               N == Len(SnapshotIds)
           IN  /\ runLog[k].id = SnapshotIds[k]
               /\ r.status = "FAILED"
               /\ r.error = (IF e = ErrNoMessage THEN MsgFallback ELSE e.message)
               /\ r.emails = <<>>
               /\ (k = Len(runLog)) =>
                     \/ pc = "delay" /\ isProcessing /\ idx = k
                     \/ /\ k < N /\ pc = "calling" /\ isProcessing /\ idx = k + 1
                        /\ RecordOf(SnapshotIds[k + 1]).status = "PROCESSING"
                     \/ k = N /\ pc = "idle" /\ ~isProcessing

\* the first call failed without a message, and the second record was taken
C5_Witness ==
    /\ Len(runLog) = 2
    /\ runLog[1].outcome.error = ErrNoMessage /\ ~runLog[1].outcome.ok
    /\ RecordOf(SnapshotIds[1]).error = MsgFallback
    /\ ~runLog[2].outcome.ok /\ runLog[2].outcome.error = ErrPlain
    /\ pc = "delay"

\* C10: when the API key is absent, an undisturbed run that has returned
\* left every record as it was: the records that were IDLE when it started
\* are IDLE, with no emails and no error.
C10_NoKeyTouchesNothing ==
    (~apiKey /\ RunReturned)
    => \A k \in 1..Len(SnapshotIds) :
           LET r == RecordOf(SnapshotIds[k])
           IN  r.status = "IDLE" /\ r.emails = <<>> /\ r.error = NoError

(***************************************************************************)
(* Claims about the App under every interleaving                           *)
(***************************************************************************)
\* C3: a call of processQueue while the controller is running is a no-op: it
\* changes no record, issues no finder call, takes no new snapshot, moves the
\* run in progress nowhere and leaves the running flag, the notification and
\* the history as they are.
C3_SecondStartNoOp ==
    [][(isProcessing /\ lastOp' = "processQueue")
       => UNCHANGED <<websites, inFlight, pendingItems, idx, pc, procLog,
                      isProcessing, notification, history>>]_vars

\* processQueue was called during a run, which is still waiting for its call
C3_Witness ==
    /\ lastOp = "processQueue"
    /\ isProcessing
    /\ runStart = <<>>
    /\ pc = "calling"
    /\ inFlight = 1

\* the place of a record in the snapshot of the run in progress
SnapshotPos(id) == CHOOSE k \in 1..Len(pendingItems) : pendingItems[k].id = id

\* at most one call in flight, at most one record PROCESSING, and the records
\* put to PROCESSING so far are snapshot records taken in snapshot order
C4_OneAtATime ==
    /\ inFlight <= 1
    /\ Cardinality({i \in 1..Len(websites) : websites[i].status = "PROCESSING"}) <= 1
    /\ \A a \in 1..Len(procLog) : \E k \in 1..idx : pendingItems[k].id = procLog[a]
    /\ \A a, b \in 1..Len(procLog) :
           a < b => SnapshotPos(procLog[a]) < SnapshotPos(procLog[b])

\* when a run starts, its snapshot holds the IDLE records of the list, each
\* at the place it has among them in the list
C4_SnapshotInListOrder ==
    (~isProcessing /\ isProcessing')
    => LET idle == {i \in 1..Len(websites) : websites[i].status = "IDLE"}
       IN  /\ Len(pendingItems') = Cardinality(idle)
           /\ \A i \in idle :
                  pendingItems'[Cardinality({j \in idle : j <= i})] = websites[i]

\* C4: in every reachable state, whatever the user does during a run (adds
\* urls, removes records, calls processQueue again), at most one finder call
\* is in flight and at most one record is PROCESSING; the snapshot of a run is
\* the IDLE records in list order, it stays as taken while the run goes on,
\* and records are put to PROCESSING in that order.
C4_Sequential ==
    /\ []C4_OneAtATime
    /\ [][C4_SnapshotInListOrder]_vars
    /\ [][(isProcessing /\ isProcessing') => pendingItems' = pendingItems]_vars

\* the second snapshot record is PROCESSING in a run the user has disturbed
C4_Witness ==
    /\ isProcessing
    /\ runStart = <<>>
    /\ Len(procLog) = 2
    /\ pc = "calling"
    /\ inFlight = 1
    /\ RecordOf(procLog[2]).status = "PROCESSING"

\* C6: whatever was added, removed, processed, cleared and saved, no two
\* records of the active list have the same normalized URL, and no record
\* was created for a normalized URL that is a key of the history.
C6_NoDuplicateRecords ==
    /\ \A i, j \in 1..Len(websites) :
           i # j => normalizeUrl(websites[i].url) # normalizeUrl(websites[j].url)
    /\ \A i \in 1..Len(websites) : normalizeUrl(websites[i].url) \notin DOMAIN history

\* C7: saveAndClear on an empty list changes nothing.  On a non-empty list
\* it empties the list, and the history becomes the previous history
\* overridden, record by record in list order, by normalizeUrl(url) -> emails
\* for the COMPLETED and FAILED records (so the last such record of a key
\* decides, and a deciding FAILED record gives the empty list); records of
\* any other status add no entry.
C7_SaveAndClear ==
    [][(lastOp' = "saveAndClear")
       => IF websites = <<>>
          THEN UNCHANGED <<websites, history, notification, isProcessing>>
          ELSE LET saved  == {i \in 1..Len(websites) :
                                 websites[i].status \in {"COMPLETED", "FAILED"}}
                   key(i) == normalizeUrl(websites[i].url)
                   last(k) == CHOOSE i \in saved :
                                 key(i) = k /\ \A j \in saved : key(j) = k => j <= i
               IN  /\ websites' = <<>>
                   /\ DOMAIN history' = (DOMAIN history) \cup {key(i) : i \in saved}
                   /\ \A k \in DOMAIN history' :
                          history'[k] = IF \E i \in saved : key(i) = k
                                        THEN websites[last(k)].emails
                                        ELSE history[k]
                   /\ \A i \in saved :
                          (websites[i].status = "FAILED" /\ last(key(i)) = i)
                          => history'[key(i)] = <<>>]_vars

\* a list with a COMPLETED record holding an email and a FAILED record was
\* saved and cleared
C7_Witness ==
    /\ lastOp = "saveAndClear"
    /\ websites = <<>>
    /\ DOMAIN history = {UrlA, UrlB}
    /\ history[UrlA] = <<EmailInfo>>
    /\ history[UrlB] = <<>>

(***************************************************************************)
(* The statistics, read from a list the App can hold: processed records,   *)
(* then the record being processed if there is one, then IDLE records.     *)
(***************************************************************************)
IdleFields == [status |-> "IDLE", emails |-> <<>>, error |-> NoError]

ProcessingFields == [status |-> "PROCESSING", emails |-> <<>>, error |-> NoError]

RecordAt(i, f) ==
    [id |-> i, url |-> RunUrls[i], status |-> f.status, emails |-> f.emails,
     error |-> f.error]

StatsLists ==
    UNION {UNION {{[i \in 1..n |->
                      IF i <= k THEN RecordAt(i, f[i])
                      ELSE IF i = k + 1 THEN RecordAt(i, m)
                      ELSE RecordAt(i, IdleFields)]
                   : f \in [1..k -> ProcessedFields],
                     m \in {IdleFields, ProcessingFields}}
                  : k \in 0..n}
           : n \in 0..(IF MaxStatsRecords <= Len(RunUrls)
                       THEN MaxStatsRecords ELSE Len(RunUrls))}

InitStats ==
    /\ apiKey \in BOOLEAN
    /\ websites \in StatsLists
    /\ isProcessing = (\E i \in 1..Len(websites) : websites[i].status = "PROCESSING")
    /\ history = NoHistory
    /\ notification = NoNotice
    /\ nextId = Len(websites)
    /\ pc = "idle"
    /\ pendingItems = <<>>
    /\ idx = 0
    /\ inFlight = 0
    /\ pendingFiles = <<>>
    /\ dismissTimers = 0
    /\ runLog = <<>>
    /\ procLog = <<>>
    /\ runStart = <<>>
    /\ lastOp = "other"
    /\ input = <<>>
    /\ output = [done |-> FALSE, value |-> <<>>]
    /\ watch = WatchOff

\* a render reads the memoized stats of the list
ReadStats ==
    /\ ~output.done
    /\ output' = [done |-> TRUE, value |-> stats(websites)]
    /\ UNCHANGED <<appVars, input, watch>>

NextStats == ReadStats

SpecStats == InitStats /\ [][NextStats]_vars

\* C8: total is the number of records, processed the number of COMPLETED or
\* FAILED records, found the number of records with at least one email;
\* successRate is 0 when processed is 0 and otherwise the integer nearest to
\* 100 * found / processed.
C8_Stats ==
    output.done
    => LET st        == output.value
           processed == Cardinality({i \in 1..Len(websites) :
                                        websites[i].status \in {"COMPLETED", "FAILED"}})
           found     == Cardinality({i \in 1..Len(websites) : websites[i].emails # <<>>})
           off       == st.successRate * processed - 100 * found
       IN  /\ st.total = Len(websites)
           /\ st.processed = processed
           /\ st.found = found
           /\ st.successRate \in Nat
           /\ processed = 0 => st.successRate = 0
           /\ processed > 0 => 2 * off <= processed /\ 2 * (0 - off) <= processed

\* two COMPLETED records with emails, one FAILED, one IDLE: 4, 3, 2 and 67
C8_Witness ==
    /\ output.done
    /\ Len(websites) = 4
    /\ \A i \in 1..2 : websites[i].status = "COMPLETED" /\ websites[i].emails # <<>>
    /\ websites[3].status = "FAILED"
    /\ websites[4].status = "IDLE"
    /\ output.value = [total |-> 4, processed |-> 3, found |-> 2, successRate |-> 67]

(***************************************************************************)
(* The extractor, applied to a text or to a file                           *)
(***************************************************************************)
\* " a.co"
UrlASpaced == <<" ">> \o UrlA

\* "http://a.co"
UrlAHttp == Http \o UrlA

\* "HTTPS://B.io/x"
UrlBUpper == <<"H", "T", "T", "P", "S", ":", "/", "/", "B", ".", "i", "o", "/", "x">>

\* what a line of the text, or a string cell of the sheet, may hold
Pieces == {UrlA, UrlA2, UrlASpaced, UrlAHttp, UrlBUpper, TextBad}

\* what the user may put between two lines
PieceSeparators == {<<",">>, <<";", " ">>, <<"\n", "\n">>}

RECURSIVE TextsOf(_)
TextsOf(n) ==
    IF n = 1 THEN Pieces
    ELSE {t \o sep \o piece : t \in TextsOf(n - 1), sep \in PieceSeparators, piece \in Pieces}

ExtractTexts == {<<>>} \cup UNION {TextsOf(n) : n \in 1..MaxPieces}

Cells == {StringCell(piece) : piece \in Pieces} \cup {NumberCell}

\* the cells in one row, or one cell per row
ExtractSheets ==
    UNION {UNION {{Sheet(<<cells>>), Sheet([i \in 1..n |-> <<cells[i]>>])}
                  : cells \in [1..n -> Cells]}
           : n \in 1..MaxPieces}

FileEmpty == [read |-> "ok", data |-> "empty", rows |-> <<>>]

FileUnreadable == [read |-> "error", data |-> "sheet", rows |-> <<>>]

ExtractFiles == ExtractSheets \cup {FileCorrupt, FileEmpty, FileUnreadable}

InitExtract ==
    /\ apiKey \in BOOLEAN
    /\ websites = <<>>
    /\ isProcessing = FALSE
    /\ history = NoHistory
    /\ notification = NoNotice
    /\ nextId = 0
    /\ pc = "idle"
    /\ pendingItems = <<>>
    /\ idx = 0
    /\ inFlight = 0
    /\ pendingFiles = <<>>
    /\ dismissTimers = 0
    /\ runLog = <<>>
    /\ procLog = <<>>
    /\ runStart = <<>>
    /\ lastOp = "other"
    /\ input \in {[kind |-> "text", text |-> t, file |-> FileEmpty] : t \in ExtractTexts}
                 \cup {[kind |-> "file", text |-> <<>>, file |-> f] : f \in ExtractFiles}
    /\ output = [done |-> FALSE, value |-> <<>>]
    /\ watch = WatchOff

\* const urls = parseText(textInput)
ExtractText ==
    /\ ~output.done
    /\ input.kind = "text"
    /\ output' = [done |-> TRUE, value |-> [ok |-> TRUE, urls |-> parseText(input.text)]]
    /\ UNCHANGED <<appVars, input, watch>>

\* const urls = await parseFile(file)
ExtractFile ==
    /\ ~output.done
    /\ input.kind = "file"
    /\ output' = [done |-> TRUE, value |-> parseFile(input.file)]
    /\ UNCHANGED <<appVars, input, watch>>

NextExtract ==
    \/ ExtractText
    \/ ExtractFile

SpecExtract == InitExtract /\ [][NextExtract]_vars

\* the entries all match the hostname pattern: with the i flag for a text,
\* without it for a file
EntriesMatch ==
    \A i \in 1..Len(output.value.urls) :
        urlRegexTest(output.value.urls[i], input.kind = "text")

\* C9 as stated: the output of the extractor holds no two entries with the
\* same normalized form, and every entry matches the hostname pattern.
C9_NoDuplicateNormalized ==
    output.done
    => /\ \A i, j \in 1..Len(output.value.urls) :
              i # j => normalizeUrl(output.value.urls[i]) # normalizeUrl(output.value.urls[j])
       /\ EntriesMatch

\* C9, amended: the output of the extractor holds no two entries that are
\* the same string, and every entry matches the hostname pattern.
C9_NoDuplicateStrings ==
    output.done
    => /\ \A i, j \in 1..Len(output.value.urls) :
              i # j => output.value.urls[i] # output.value.urls[j]
       /\ EntriesMatch

\* a text with the same line twice, once with a space before it: one entry
C9_Witness ==
    /\ output.done
    /\ input.kind = "text"
    /\ input.text = UrlA \o <<",">> \o UrlASpaced
    /\ output.value.urls = <<UrlA>>

(***************************************************************************)
(* Claims about the replies of a session of runs                           *)
(***************************************************************************)
\* the replies that are no transport failure and hold no array of emails
MalformedKinds == {"invalid", "noEmails"}

\* C11: when the reply to the latest call of a run is malformed (no valid
\* JSON, or JSON without an array field emails) the finder resolves with the
\* empty list: the record is COMPLETED with no emails and no error, and the
\* run goes on (it waits, takes the next record, returns after the last).
\* The finder rejects only when the call itself failed (or no key is set).
C11_MalformedIsEmpty ==
    runLog # <<>>
    => LET k == Len(runLog)
           o == runLog[k].outcome
           r == RecordOf(SnapshotIds[k])
           N == Len(SnapshotIds)
       IN  /\ ~o.ok => (watch.reply.kind = "throw" \/ ~apiKey)
           /\ (apiKey /\ watch.reply.kind \in MalformedKinds)
              => /\ o.ok /\ o.emails = <<>>
                 /\ runLog[k].id = SnapshotIds[k]
                 /\ r.status = "COMPLETED" /\ r.emails = <<>> /\ r.error = NoError
                 /\ \/ pc = "delay" /\ isProcessing /\ idx = k
                    \/ /\ k < N /\ pc = "calling" /\ isProcessing /\ idx = k + 1
                       /\ RecordOf(SnapshotIds[k + 1]).status = "PROCESSING"
                    \/ k = N /\ pc = "idle" /\ ~isProcessing

\* the reply to the first call was no JSON, and the second record was taken
C11_Witness ==
    /\ apiKey
    /\ Len(runLog) = 1
    /\ watch.reply = Answer("invalid", <<>>)
    /\ RecordOf(SnapshotIds[1]).status = "COMPLETED"
    /\ Len(SnapshotIds) >= 2
    /\ pc = "calling"
    /\ idx = 2

(***************************************************************************)
(* Claims about the records under every interleaving                       *)
(***************************************************************************)
IdsOf(ws) == {ws[i].id : i \in 1..Len(ws)}

StatusIn(ws, id) == ws[CHOOSE i \in 1..Len(ws) : ws[i].id = id].status

\* the status changes a step may make to a record that stays in the list
StatusMoves ==
    {<<"IDLE", "PROCESSING">>, <<"PROCESSING", "COMPLETED">>,
     <<"PROCESSING", "FAILED">>}

\* one step: a record that stays keeps its status or makes one of the moves,
\* or goes from PROCESSING to IDLE as the controller halts with the
\* rate-limit notice; a record that appears is IDLE
C12_StatusStep ==
    \A id \in IdsOf(websites') :
        IF id \in IdsOf(websites)
        THEN LET a == StatusIn(websites, id)
                 b == StatusIn(websites', id)
             IN  \/ a = b
                 \/ <<a, b>> \in StatusMoves
                 \/ /\ a = "PROCESSING" /\ b = "IDLE"
                    /\ isProcessing /\ ~isProcessing'
                    /\ notification' = "rateLimit"
        ELSE StatusIn(websites', id) = "IDLE"

\* C12: over any sequence of operations a record's status changes only along
\* IDLE -> PROCESSING, PROCESSING -> COMPLETED, PROCESSING -> FAILED and, with
\* the controller halting on a rate-limit error, PROCESSING -> IDLE; COMPLETED
\* and FAILED records keep their status while they are in the list, records
\* are created IDLE, and no record is ever PENDING.
C12_StatusLifecycle ==
    /\ [](\A i \in 1..Len(websites) : websites[i].status # "PENDING")
    /\ [][C12_StatusStep]_vars

\* a run completed the first record and was halted on the second, which is
\* IDLE again
C12_Witness ==
    /\ notification = "rateLimit"
    /\ ~isProcessing
    /\ Len(websites) = 2
    /\ websites[1].status = "COMPLETED"
    /\ websites[2].status = "IDLE"
    /\ runStart # <<>>

(***************************************************************************)
(* Claims about the delay                                                  *)
(***************************************************************************)
\* one step of a run: a call that returns is followed by the wait, unless
\* the run halts with the rate-limit notice; the next record is taken, a call
\* is issued and the run returns only when the wait is over (or, for the
\* first record, as the run starts)
C13_DelayStep ==
    /\ (pc = "calling" /\ inFlight' < inFlight)
       => LET b == StatusIn(websites', pendingItems[idx].id)
          IN  \/ /\ pc' = "delay" /\ isProcessing' /\ idx' = idx
                 /\ b \in {"COMPLETED", "FAILED"}
              \/ /\ pc' = "idle" /\ ~isProcessing' /\ notification' = "rateLimit"
                 /\ b = "IDLE"
    /\ (inFlight' > inFlight \/ (isProcessing' /\ idx' # idx))
       => (pc = "delay" \/ (pc = "idle" /\ ~isProcessing))
    /\ (isProcessing /\ ~isProcessing')
       => (pc = "delay" \/ (pc = "calling" /\ notification' = "rateLimit"))

\* C13: within a run, after every record whose call ended in COMPLETED or
\* FAILED the controller waits the delay before it puts the next record to
\* PROCESSING or, after the last record, before it returns to not-running;
\* only the rate-limit halt is followed by no delay.
C13_DelayAfterEachRecord == [][C13_DelayStep]_vars

\* the run waits after a failed call while a record is left to take
C13_Witness ==
    /\ pc = "delay"
    /\ isProcessing
    /\ runLog # <<>>
    /\ ~runLog[Len(runLog)].outcome.ok
    /\ idx < Len(pendingItems)
    /\ RecordOf(pendingItems[idx].id).status = "FAILED"

\* C14: over a session of runs no finder call is issued before the delay
\* has been waited since the previous call returned: a call is issued from
\* the wait, or by a run that starts when no call has returned yet or when
\* the previous run returned through its wait (not through the rate-limit
\* halt, which returns at once and leaves its notice).
C14_DelayAcrossRuns ==
    [][(inFlight' > inFlight)
       => \/ pc = "delay"
          \/ pc = "idle" /\ watch.reply = NoReply
          \/ pc = "idle" /\ notification # "rateLimit"]_vars

(***************************************************************************)
(* Claims about the retry after a rate-limit halt                          *)
(***************************************************************************)
\* the messages of the rate-limit errors
RateLimitMessages == {e.message : e \in RateLimitCases} \ {<<>>}

\* in a state of a session of runs: the record a halt rolled back is IDLE
\* with no emails and no error; no record carries the message of a
\* rate-limit error; the calls of a run went to the records that were IDLE
\* when it started, in list order; and a run whose calls all succeeded left
\* every rolled-back record it started with COMPLETED
C15_RetryState ==
    /\ (/\ RunReturned /\ runLog # <<>>
        /\ ~runLog[Len(runLog)].outcome.ok
        /\ runLog[Len(runLog)].outcome.error \in RateLimitCases)
       => LET r == RecordOf(runLog[Len(runLog)].id)
          IN  /\ r.id \in watch.rolledBack
              /\ r.status = "IDLE" /\ r.emails = <<>> /\ r.error = NoError
    /\ \A i \in 1..Len(websites) : websites[i].error \notin RateLimitMessages
    /\ Len(runLog) <= Len(SnapshotIds)
    /\ \A k \in 1..Len(runLog) : runLog[k].id = SnapshotIds[k]
    /\ (RunReturned /\ \A k \in 1..Len(runLog) : runLog[k].outcome.ok)
       => \A i \in 1..Len(runStart) :
              (runStart[i].id \in watch.rolledBack /\ runStart[i].status = "IDLE")
              => /\ \E k \in 1..Len(runLog) : runLog[k].id = runStart[i].id
                 /\ RecordOf(runStart[i].id).status = "COMPLETED"

\* C15: a record rolled back by a rate-limit halt is never FAILED and gets
\* no error because of that error; a run started after the halt takes it and
\* every other IDLE record, in list order, and when all its calls succeed
\* they all end COMPLETED; COMPLETED and FAILED records are left as they are.
C15_Retryable ==
    /\ []C15_RetryState
    /\ [][\A i \in 1..Len(websites) :
             websites[i].status \in {"COMPLETED", "FAILED"}
             => (i <= Len(websites') /\ websites'[i] = websites[i])]_vars

\* a FAILED record, then a record rolled back by a halt and one more IDLE
\* record: a later run completed the two and left the first alone
C15_Witness ==
    /\ RunReturned
    /\ Len(websites) = 3
    /\ websites[1].status = "FAILED"
    /\ websites[2].id \in watch.rolledBack
    /\ websites[2].status = "COMPLETED"
    /\ websites[3].status = "COMPLETED"
    /\ Len(runLog) = 2
    /\ \A k \in 1..2 : runLog[k].outcome.ok

\* C16: in every reachable state a record with emails is COMPLETED, a
\* record with an error is FAILED, and so the statistics of the list have
\* found <= processed <= total and a successRate from 0 to 100.
C16_EmailsOnlyCompleted ==
    /\ \A i \in 1..Len(websites) :
           /\ websites[i].emails # <<>> => websites[i].status = "COMPLETED"
           /\ websites[i].error # NoError => websites[i].status = "FAILED"
    /\ LET st == stats(websites)
       IN  /\ st.found <= st.processed
           /\ st.processed <= st.total
           /\ 0 <= st.successRate /\ st.successRate <= 100

\* a COMPLETED record with an email next to a FAILED record with its error
C16_Witness ==
    /\ Len(websites) = 2
    /\ websites[1].status = "COMPLETED" /\ websites[1].emails = <<EmailInfo>>
    /\ websites[2].status = "FAILED" /\ websites[2].error = MsgFallback
    /\ stats(websites).successRate = 50

\* C17: the finder is invoked only for a record that is in the active list,
\* and the return of a call brings no record into the list.
C17_NoCallForRemoved ==
    /\ [][(inFlight' > inFlight) => pendingItems'[idx'].id \in IdsOf(websites)]_vars
    /\ [][(pc = "calling" /\ inFlight' < inFlight)
          => IdsOf(websites') \subseteq IdsOf(websites)]_vars

====
